---- MODULE Spec2Model ----
(***************************************************************************)
(* Model of src/src/zip_sort_zip.py: a three stage pipeline that unzips    *)
(* every archive of an input folder into a scratch folder, moves the       *)
(* extracted entries into folders named by modification date, and zips     *)
(* every date folder into one output archive.                              *)
(*                                                                         *)
(* A string is a sequence of one-character strings, a path is a sequence   *)
(* of names (strings).  The filesystem is two maps: dirs (directory path   *)
(* to modification time) and files (regular file path to its content id    *)
(* and modification time); the archives written to the output folder are   *)
(* kept in the map archives (file name to member list).                    *)
(***************************************************************************)
EXTENDS Integers, Sequences, FiniteSets, TLC

VARIABLES
    args,       \* argparse namespace of main: input, output, format, date
    inputDir,   \* the input folder: exists, entries (file name -> zip file)
    dirs,       \* directory path -> mtime
    files,      \* regular file path -> [zip, name, mtime]
    archives,   \* output folder: archive file name -> set of members
    pc,         \* position of the run in main and in the stage it is in
    status,     \* process exit status, -1 while running
    err,        \* the error that ended the run, "" when none
    zipList,    \* unzip_all_zip_files: zip_files still to process (line 69)
    fileList,   \* sort_files_by_date: files still to move (line 97)
    folderList, \* zip_sorted_folders: sorted_folders still to zip (line 135)
    extracted,  \* history: members written by extractall
    stamped,    \* history: members whose file got os.utime
    enumerated, \* history: entries the glob of line 95 returned
    moved,      \* history: entries moved by shutil.move
    written     \* history: one record per output archive written

vars == <<args, inputDir, dirs, files, archives, pc, status, err, zipList,
          fileList, folderList, extracted, stamped, enumerated, moved, written>>

----------------------------------------------------------------------------
(* Bounds *)

\* Largest number of members in all the input archives together.
MaxMembers == 2

----------------------------------------------------------------------------
(* Strings *)

DigitChars == <<"0", "1", "2", "3", "4", "5", "6", "7", "8", "9">>

Digit(n) == DigitChars[n + 1]

IsDigit(c) == \E i \in 1..10 : DigitChars[i] = c

DigitVal(c) == (CHOOSE i \in 1..10 : DigitChars[i] = c) - 1

\* str(n), and strftime's %Y for a four digit year
RECURSIVE Dec(_)
Dec(n) == IF n < 10 THEN <<Digit(n)>> ELSE Dec(n \div 10) \o <<Digit(n % 10)>>

\* strftime's %m and %d: two digits, zero padded
Pad2(n) == <<Digit((n \div 10) % 10), Digit(n % 10)>>

RECURSIVE Num(_)
Num(s) == IF s = <<>> THEN 0
          ELSE 10 * Num(SubSeq(s, 1, Len(s) - 1)) + DigitVal(s[Len(s)])

AllDigits(s) == \A i \in 1..Len(s) : IsDigit(s[i])

EndsWith(s, t) ==
    /\ Len(s) >= Len(t)
    /\ SubSeq(s, Len(s) - Len(t) + 1, Len(s)) = t

\* glob's pattern *.zip on one file name: a name starting with "." is
\* hidden from a pattern that starts with "*"
GlobZip(name) ==
    /\ name # <<>>
    /\ name[1] # "."
    /\ EndsWith(name, <<".", "z", "i", "p">>)

\* glob's pattern *.* on one file name
GlobDotAny(name) ==
    /\ name # <<>>
    /\ name[1] # "."
    /\ \E i \in 1..Len(name) : name[i] = "."

----------------------------------------------------------------------------
(* Calendar: time.mktime, datetime.fromtimestamp, strftime, strptime *)

\* Offset of the local time zone from UTC, in seconds (no DST rule).
TzOffset == 3600

IsLeap(y) == (y % 4 = 0 /\ y % 100 # 0) \/ y % 400 = 0

DaysInMonth(y, m) ==
    IF m = 2 THEN (IF IsLeap(y) THEN 29 ELSE 28)
    ELSE IF m \in {4, 6, 9, 11} THEN 30 ELSE 31

\* days from 1970-01-01 to the civil date y-m-d
DaysFromCivil(y, m, d) ==
    LET yy  == IF m <= 2 THEN y - 1 ELSE y
        era == yy \div 400
        yoe == yy - era * 400
        mp  == IF m > 2 THEN m - 3 ELSE m + 9
        doy == (153 * mp + 2) \div 5 + d - 1
        doe == yoe * 365 + yoe \div 4 - yoe \div 100 + doy
    IN  era * 146097 + doe - 719468

CivilFromDays(z) ==
    LET zz  == z + 719468
        era == zz \div 146097
        doe == zz - era * 146097
        yoe == (doe - doe \div 1460 + doe \div 36524 - doe \div 146096) \div 365
        doy == doe - (365 * yoe + yoe \div 4 - yoe \div 100)
        mp  == (5 * doy + 2) \div 153
        d   == doy - (153 * mp + 2) \div 5 + 1
        m   == IF mp < 10 THEN mp + 3 ELSE mp - 9
        y   == yoe + era * 400 + (IF m <= 2 THEN 1 ELSE 0)
    IN  [y |-> y, m |-> m, d |-> d]

\* time.mktime(date_time + (0, 0, -1)): a naive local date-time to seconds
\* since the epoch
Mktime(dt) ==
    DaysFromCivil(dt[1], dt[2], dt[3]) * 86400
        + dt[4] * 3600 + dt[5] * 60 + dt[6] - TzOffset

\* datetime.fromtimestamp(t) as (year, month, day, hour, minute, second)
LocalTime(t) ==
    LET lt   == t + TzOffset
        date == CivilFromDays(lt \div 86400)
        secs == lt % 86400
    IN  <<date.y, date.m, date.d, secs \div 3600, (secs % 3600) \div 60, secs % 60>>

\* datetime.fromtimestamp(t), the calendar date of it
FromTimestamp(t) ==
    LET lt == LocalTime(t) IN [y |-> lt[1], m |-> lt[2], d |-> lt[3]]

\* the date folder named day first, as by strftime("%d_%m_%Y")
FolderKey_mut(date) ==
    Pad2(date.d) \o <<"_">> \o Pad2(date.m) \o <<"_">> \o Dec(date.y)

\* modified_date.strftime("%m_%d_%Y")
FolderKey(date) ==
    Pad2(date.m) \o <<"_">> \o Pad2(date.d) \o <<"_">> \o Dec(date.y)

NoDate == [ok |-> FALSE, y |-> 0, m |-> 0, d |-> 0]

\* datetime.strptime(s, "%m_%d_%Y"): ok is FALSE where it raises ValueError
Strptime(s) ==
    LET us == {i \in 1..Len(s) : s[i] = "_"}
    IN  IF Cardinality(us) # 2 THEN NoDate
        ELSE
          LET i  == CHOOSE k \in us : \A l \in us : k <= l
              j  == CHOOSE k \in us : \A l \in us : k >= l
              mm == SubSeq(s, 1, i - 1)
              dd == SubSeq(s, i + 1, j - 1)
              yy == SubSeq(s, j + 1, Len(s))
          IN  IF /\ Len(mm) \in 1..2 /\ AllDigits(mm)
                 /\ Len(dd) \in 1..2 /\ AllDigits(dd)
                 /\ Len(yy) = 4 /\ AllDigits(yy)
                 /\ Num(yy) >= 1
                 /\ Num(mm) \in 1..12
                 /\ Num(dd) \in 1..DaysInMonth(Num(yy), Num(mm))
              THEN [ok |-> TRUE, y |-> Num(yy), m |-> Num(mm), d |-> Num(dd)]
              ELSE NoDate

\* a parse that falls back to a fixed date where strptime raises
ParseFolderKey_mut(s) ==
    IF Strptime(s).ok THEN Strptime(s)
    ELSE [ok |-> TRUE, y |-> 1970, m |-> 1, d |-> 1]

\* line 146: the date of a sorted folder's name
ParseFolderKey(s) == Strptime(s)

\* folder_decoded_date.strftime(date_format); a date format is a sequence
\* of directives "%Y", "%m", "%d" and literal characters
RECURSIVE Strftime(_, _)
Strftime(date, fmt) ==
    IF fmt = <<>> THEN <<>>
    ELSE (CASE Head(fmt) = "%Y" -> Dec(date.y)
            [] Head(fmt) = "%m" -> Pad2(date.m)
            [] Head(fmt) = "%d" -> Pad2(date.d)
            [] OTHER -> <<Head(fmt)>>) \o Strftime(date, Tail(fmt))

\* archive_name_format.format(date_format=..., file_count=...); a template
\* is a sequence of the fields "{date_format}", "{file_count}" and literal
\* characters
RECURSIVE FormatName(_, _, _)
FormatName(tpl, dateStr, count) ==
    IF tpl = <<>> THEN <<>>
    ELSE (CASE Head(tpl) = "{date_format}" -> dateStr
            [] Head(tpl) = "{file_count}" -> Dec(count)
            [] OTHER -> <<Head(tpl)>>) \o FormatName(Tail(tpl), dateStr, count)

----------------------------------------------------------------------------
(* Paths and the filesystem *)

None == <<>>

InputPath  == << <<"i", "n">> >>
OutputPath == << <<"o", "u", "t">> >>
\* unzip_dir.name and sort_dir.name: two fresh temporary directories
UnzipPath  == << <<"t", "m", "p", "1">> >>
SortPath   == << <<"t", "m", "p", "2">> >>

EmptyMap == [x \in {} |-> x]

Basename(p) == p[Len(p)]

Parent(p) == SubSeq(p, 1, Len(p) - 1)

IsPrefix(d, p) == Len(d) <= Len(p) /\ SubSeq(p, 1, Len(d)) = d

Exists(ds, fs, p) == p \in DOMAIN ds \/ p \in DOMAIN fs

\* the entries directly inside directory d
Children(ds, fs, d) ==
    {p \in DOMAIN ds \cup DOMAIN fs : Len(p) = Len(d) + 1 /\ IsPrefix(d, p)}

Perms(S) ==
    {q \in [1..Cardinality(S) -> S] :
        \A i, j \in 1..Cardinality(S) : q[i] = q[j] => i = j}

\* os.makedirs(p) at wall-clock time now: p and its missing ancestors
MakeDirs(ds, p, now) ==
    LET new == {SubSeq(p, 1, k) : k \in 1..Len(p)} \ DOMAIN ds
    IN  [q \in DOMAIN ds \cup new |-> IF q \in DOMAIN ds THEN ds[q] ELSE now]

\* make_folder(folder_path)
make_folder(ds, fs, p, now) ==
    IF ~Exists(ds, fs, p) THEN MakeDirs(ds, p, now) ELSE ds

\* the files of fs, with those of the map new written over them
Overwrite(fs, new) ==
    [q \in DOMAIN fs \cup DOMAIN new |-> IF q \in DOMAIN new THEN new[q] ELSE fs[q]]

\* path p of the subtree at src, as it is named once src is renamed to dst
Rebase(p, src, dst) == dst \o SubSeq(p, Len(src) + 1, Len(p))

\* os.rename(src, dst) on a map of paths: the subtree at src becomes the
\* subtree at dst, replacing what was at dst
Rename(f, src, dst) ==
    LET sub  == {p \in DOMAIN f : IsPrefix(src, p)}
        kept == {p \in DOMAIN f : ~IsPrefix(src, p) /\ p # dst}
        new  == {Rebase(p, src, dst) : p \in sub}
    IN  [q \in kept \cup new |->
            IF q \in new
            THEN f[CHOOSE p \in sub : Rebase(p, src, dst) = q]
            ELSE f[q]]

----------------------------------------------------------------------------
(* Inputs *)

\* the files an input folder may hold: two named *.zip and a text file
ZipNames == { <<"a", ".", "z", "i", "p">>, <<"b", ".", "z", "i", "p">> }

TextName == <<"c", ".", "t", "x", "t">>

InputNames == ZipNames \cup {TextName}

\* member file names: photo "p.j", notes "n.t", a name without a dot "R",
\* and a file in a directory whose name has a dot, "v.1/f.t"
MemberNames ==
    { << <<"p", ".", "j">> >>,
      << <<"n", ".", "t">> >>,
      << <<"R">> >>,
      << <<"v", ".", "1">>, <<"f", ".", "t">> >> }

\* ZipInfo.date_time values
Stamps == { <<2021, 6, 15, 14, 30, 0>>,
            <<2021, 6, 15, 9, 0, 0>>,
            <<2021, 6, 16, 23, 59, 58>> }

\* the wall-clock time of the run
Now == Mktime(<<2021, 6, 17, 12, 0, 0>>)

DefaultFormat ==
    <<"a", "r", "c", "h", "i", "v", "e", "_", "{date_format}", "_", "[",
      "{file_count}", "]", ".", "z", "i", "p">>

DefaultDate == <<"%Y", "-", "%m", "-", "%d">>

\* values of --format: the default, and a template without the date field
Templates == { DefaultFormat, <<"n", "{file_count}", ".", "z", "i", "p">> }

\* values of --date: the default, and the year alone
DateFormats == { DefaultDate, <<"%Y">> }

Infolists ==
    {s \in SUBSET [filename : MemberNames, date_time : Stamps] :
        /\ Cardinality(s) <= MaxMembers
        /\ \A m1, m2 \in s : m1.filename = m2.filename => m1 = m2}

BadZip == [valid |-> FALSE, infolist |-> {}]

ZipFiles == {BadZip} \cup {[valid |-> TRUE, infolist |-> s] : s \in Infolists}

TotalMembers(entries) ==
    LET RECURSIVE Sum(_)
        Sum(S) == IF S = {} THEN 0
                  ELSE LET z == CHOOSE z \in S : TRUE
                       IN  Cardinality(entries[z].infolist) + Sum(S \ {z})
    IN  Sum(DOMAIN entries)

\* the *.zip files of an input folder
ZipEntries ==
    {e \in UNION {[S -> ZipFiles] : S \in SUBSET ZipNames} :
        TotalMembers(e) <= MaxMembers}

\* the text file, which is no zip archive, added to the folder
WithText(e) ==
    [n \in DOMAIN e \cup {TextName} |-> IF n = TextName THEN BadZip ELSE e[n]]

InputEntries == ZipEntries \cup {WithText(e) : e \in ZipEntries}

\* the members of the archives the glob of line 66 finds
AllMembers ==
    UNION {{[zip |-> z, name |-> m.filename, date_time |-> m.date_time] :
                m \in inputDir.entries[z].infolist} :
           z \in {z \in DOMAIN inputDir.entries : GlobZip(z)}}

MemberId(m) == [zip |-> m.zip, name |-> m.name]

----------------------------------------------------------------------------
(* main *)

Init ==
    /\ args \in [input : {None, InputPath}, output : {None, OutputPath},
                 format : Templates, date : DateFormats]
    /\ inputDir \in [exists : BOOLEAN, entries : InputEntries]
    /\ ~inputDir.exists => inputDir.entries = EmptyMap
    /\ (args.input = None \/ args.output = None) =>
          /\ inputDir.entries = EmptyMap
          /\ args.format = DefaultFormat /\ args.date = DefaultDate
    /\ dirs = IF inputDir.exists THEN [p \in {InputPath} |-> Now] ELSE EmptyMap
    /\ files = EmptyMap
    /\ archives = EmptyMap
    /\ pc = "main"
    /\ status = -1
    /\ err = ""
    /\ zipList = <<>>
    /\ fileList = <<>>
    /\ folderList = <<>>
    /\ extracted = {}
    /\ stamped = {}
    /\ enumerated = {}
    /\ moved = {}
    /\ written = {}

\* sys.exit(code), or an exception nobody catches (status 1)
Exit(code, error) ==
    /\ pc' = "exit"
    /\ status' = code
    /\ err' = error

\* lines 229-231
MainNoInput ==
    /\ pc = "main"
    /\ args.input = None
    /\ Exit(1, "Input folder is required")
    /\ UNCHANGED <<args, inputDir, dirs, files, archives, zipList, fileList,
                   folderList, extracted, stamped, enumerated, moved, written>>

\* lines 233-235
MainNoOutput ==
    /\ pc = "main"
    /\ args.input # None
    /\ args.output = None
    /\ Exit(1, "Output folder is required")
    /\ UNCHANGED <<args, inputDir, dirs, files, archives, zipList, fileList,
                   folderList, extracted, stamped, enumerated, moved, written>>

\* the checks of lines 229 and 233 alone
ArgsAccepted_mut ==
    /\ args.input # None
    /\ args.output # None

\* the checks of lines 229, 233 and 244 all passed
ArgsAccepted ==
    /\ args.input # None
    /\ args.output # None
    /\ Exists(dirs, files, args.input)

\* lines 244-246
MainInputNotFound ==
    /\ pc = "main"
    /\ args.input # None
    /\ args.output # None
    /\ ~Exists(dirs, files, args.input)
    /\ Exit(1, "Input folder does not exist")
    /\ UNCHANGED <<args, inputDir, dirs, files, archives, zipList, fileList,
                   folderList, extracted, stamped, enumerated, moved, written>>

\* lines 248-251: the output folder and the two temporary folders
MainSetup ==
    /\ pc = "main"
    /\ ArgsAccepted
    /\ dirs' = MakeDirs(MakeDirs(make_folder(dirs, files, args.output, Now),
                                 UnzipPath, Now), SortPath, Now)
    /\ pc' = "unzip"
    /\ UNCHANGED <<args, inputDir, files, archives, status, err, zipList,
                   fileList, folderList, extracted, stamped, enumerated, moved,
                   written>>

----------------------------------------------------------------------------
(* unzip_all_zip_files(args.input, unzip_dir.name) *)

\* glob.glob(f"{input_folder}/*.zip"), as a set of file names
GlobInput == {z \in DOMAIN inputDir.entries : GlobZip(z)}

\* lines 63-66; glob returns the names in an arbitrary order
UnzipBegin ==
    /\ pc = "unzip"
    /\ dirs' = make_folder(dirs, files, UnzipPath, Now)
    /\ \E order \in Perms(GlobInput) : zipList' = order
    /\ pc' = "unzip_loop"
    /\ UNCHANGED <<args, inputDir, files, archives, status, err, fileList,
                   folderList, extracted, stamped, enumerated, moved, written>>

\* zip_ref.extractall(unzip_folder) of zip file z: every member is written
\* at unzip_folder/filename, over any file already there, with the
\* wall-clock time as its modification time
ExtractAllFiles(fs, z) ==
    LET info == inputDir.entries[z].infolist
        new  == [q \in {UnzipPath \o m.filename : m \in info} |->
                    LET m == CHOOSE m \in info : UnzipPath \o m.filename = q
                    IN  [zip |-> z, name |-> m.filename, mtime |-> Now]]
    IN  Overwrite(fs, new)

\* the directories extractall makes for the members of z
RECURSIVE ExtractAllDirs(_, _)
ExtractAllDirs(ds, info) ==
    IF info = {} THEN ds
    ELSE LET m == CHOOSE m \in info : TRUE
         IN  ExtractAllDirs(MakeDirs(ds, Parent(UnzipPath \o m.filename), Now),
                            info \ {m})

\* every file taken for an archive
IsZipFile_mut(z) == TRUE

\* line 71: zipfile.ZipFile(zip_file, 'r') opens z
IsZipFile(z) == inputDir.entries[z].valid

\* lines 69-72 for the next zip file: zipfile.ZipFile raises BadZipFile on
\* a file that is no archive, and nothing catches it
UnzipExtract ==
    /\ pc = "unzip_loop"
    /\ zipList # <<>>
    /\ LET z == Head(zipList)
       IN  IF ~IsZipFile(z)
           THEN /\ Exit(1, "BadZipFile")
                /\ UNCHANGED <<dirs, files, extracted>>
           ELSE /\ files' = ExtractAllFiles(files, z)
                /\ dirs' = ExtractAllDirs(dirs, inputDir.entries[z].infolist)
                /\ extracted' = extracted \cup
                      {[zip |-> z, name |-> m.filename] :
                          m \in inputDir.entries[z].infolist}
                /\ pc' = "unzip_utime"
                /\ UNCHANGED <<status, err>>
    /\ UNCHANGED <<args, inputDir, archives, zipList, fileList, folderList,
                   stamped, enumerated, moved, written>>

\* the modification time line 81 gives the file of a member stored with
\* date_time dt
UtimeValue(dt) == Mktime(dt)

\* lines 74-81 for the members of zip file z: os.utime on
\* unzip_folder/filename
SetTimes(fs, z) ==
    LET info == inputDir.entries[z].infolist
    IN  [q \in DOMAIN fs |->
            IF \E m \in info : UnzipPath \o m.filename = q
            THEN LET m == CHOOSE m \in info : UnzipPath \o m.filename = q
                 IN  [fs[q] EXCEPT !.mtime = UtimeValue(m.date_time)]
            ELSE fs[q]]

UnzipSetTimes ==
    /\ pc = "unzip_utime"
    /\ LET z == Head(zipList)
       IN  /\ files' = SetTimes(files, z)
           /\ stamped' = stamped \cup
                 {[zip |-> z, name |-> m.filename] :
                     m \in inputDir.entries[z].infolist}
    /\ zipList' = Tail(zipList)
    /\ pc' = "unzip_loop"
    /\ UNCHANGED <<args, inputDir, dirs, archives, status, err, fileList,
                   folderList, extracted, enumerated, moved, written>>

\* a return from inside the loop
UnzipFinished_mut == TRUE

\* the for loop of line 69 has no zip file left
UnzipFinished == zipList = <<>>

\* unzip_all_zip_files returns to main, line 255
UnzipReturn ==
    /\ pc = "unzip_loop"
    /\ UnzipFinished
    /\ pc' = "sort"
    /\ UNCHANGED <<args, inputDir, dirs, files, archives, status, err, zipList,
                   fileList, folderList, extracted, stamped, enumerated, moved,
                   written>>

----------------------------------------------------------------------------
(* sort_files_by_date(unzip_dir.name, sort_dir.name) *)

\* os.path.getmtime(p)
GetMtime(ds, fs, p) == IF p \in DOMAIN fs THEN fs[p].mtime ELSE ds[p]

\* glob.glob(f"{folder}/*.*"): the files and directories directly inside
\* folder whose name matches *.*
GlobFolder(ds, fs, folder) ==
    {p \in Children(ds, fs, folder) : GlobDotAny(Basename(p))}

\* what the glob of line 95 saw of entry p
Entry(ds, fs, p) ==
    [path  |-> p,
     isdir |-> p \in DOMAIN ds,
     mtime |-> GetMtime(ds, fs, p),
     zip   |-> IF p \in DOMAIN fs THEN fs[p].zip ELSE <<>>,
     name  |-> IF p \in DOMAIN fs THEN fs[p].name ELSE <<>>]

\* lines 92-95; glob returns the paths in an arbitrary order
SortBegin ==
    /\ pc = "sort"
    /\ dirs' = make_folder(dirs, files, SortPath, Now)
    /\ \E order \in Perms(GlobFolder(dirs, files, UnzipPath)) :
          fileList' = order
    /\ enumerated' = {Entry(dirs, files, p) : p \in GlobFolder(dirs, files, UnzipPath)}
    /\ pc' = "sort_loop"
    /\ UNCHANGED <<args, inputDir, files, archives, status, err, zipList,
                   folderList, extracted, stamped, moved, written>>

\* lines 100-105: the date folder of an entry modified at time t
DateFolderPath(t) == SortPath \o <<FolderKey(FromTimestamp(t))>>

\* a copy: the source stays where it is
Move_mut(ds, fs, src, dst) ==
    [ok |-> TRUE,
     dirs |-> ds,
     files |-> [q \in DOMAIN fs \cup {dst} |-> IF q = dst THEN fs[src] ELSE fs[q]]]

\* shutil.move(src, dst): into dst when dst is a directory (an error when
\* that name is taken there), else os.rename, which replaces a file at dst;
\* a directory cannot replace a file
Move(ds, fs, src, dst) ==
    LET real_dst == IF dst \in DOMAIN ds THEN dst \o <<Basename(src)>> ELSE dst
    IN  IF \/ (dst \in DOMAIN ds /\ Exists(ds, fs, real_dst))
           \/ (src \in DOMAIN ds /\ real_dst \in DOMAIN fs)
        THEN [ok |-> FALSE, dirs |-> ds, files |-> fs]
        ELSE [ok |-> TRUE,
              dirs |-> Rename(ds, src, real_dst),
              files |-> Rename(fs, src, real_dst)]

\* lines 97-113 for the next file
SortMove ==
    /\ pc = "sort_loop"
    /\ fileList # <<>>
    /\ LET file == Head(fileList)
           date_folder_path == DateFolderPath(GetMtime(dirs, files, file))
           made == make_folder(dirs, files, date_folder_path, Now)
           mv == Move(made, files, file, date_folder_path \o <<Basename(file)>>)
       IN  IF mv.ok
           THEN /\ dirs' = mv.dirs
                /\ files' = mv.files
                /\ moved' = moved \cup
                      {[path |-> file,
                        replaced |-> date_folder_path \o <<Basename(file)>>
                                         \in DOMAIN files]}
                /\ fileList' = Tail(fileList)
                /\ UNCHANGED <<pc, status, err>>
           ELSE /\ dirs' = made
                /\ Exit(1, "shutil.Error")
                /\ UNCHANGED <<files, moved, fileList>>
    /\ UNCHANGED <<args, inputDir, archives, zipList, folderList, extracted,
                   stamped, enumerated, written>>

\* sort_files_by_date returns to main, line 257
SortReturn ==
    /\ pc = "sort_loop"
    /\ fileList = <<>>
    /\ pc' = "zip"
    /\ UNCHANGED <<args, inputDir, dirs, files, archives, status, err, zipList,
                   fileList, folderList, extracted, stamped, enumerated, moved,
                   written>>

----------------------------------------------------------------------------
(* zip_sorted_folders(sort_dir.name, args.output, args.format, args.date) *)

\* lines 130-133: the directories directly inside the sorted folder
SortedFolders == {p \in Children(dirs, files, SortPath) : p \in DOMAIN dirs}

ZipBegin ==
    /\ pc = "zip"
    /\ \E order \in Perms(SortedFolders) : folderList' = order
    /\ pc' = "zip_loop"
    /\ UNCHANGED <<args, inputDir, dirs, files, archives, status, err, zipList,
                   fileList, extracted, stamped, enumerated, moved, written>>

\* line 137: sorted_files of one sorted folder
SortedFiles(folder) == GlobFolder(dirs, files, folder)

\* lines 144-153: the archive name of a sorted folder with count files
ArchiveName(folder, count) ==
    FormatName(args.format,
               Strftime(ParseFolderKey(Basename(folder)), args.date),
               count)

\* lines 158-160: zipf.write(file, relative_archive_name) adds one member,
\* the file, or the entry of a directory without what is inside it
Member(folder, file) ==
    [arcname |-> SubSeq(file, Len(folder) + 1, Len(file)),
     isdir   |-> file \in DOMAIN dirs,
     zip     |-> IF file \in DOMAIN files THEN files[file].zip ELSE <<>>,
     name    |-> IF file \in DOMAIN files THEN files[file].name ELSE <<>>]

\* lines 135-161 for the next sorted folder: skipped when the glob finds
\* nothing, ValueError when its name is no date, else one archive written
\* (mode 'w' replaces an archive of the same name)
ZipFolder ==
    /\ pc = "zip_loop"
    /\ folderList # <<>>
    /\ LET folder == Head(folderList)
           sorted_files == SortedFiles(folder)
           sorted_file_count == Cardinality(sorted_files)
       IN  IF sorted_file_count = 0
           THEN /\ folderList' = Tail(folderList)
                /\ UNCHANGED <<archives, written, pc, status, err>>
           ELSE IF ~ParseFolderKey(Basename(folder)).ok
           THEN /\ Exit(1, "ValueError")
                /\ UNCHANGED <<archives, written, folderList>>
           ELSE LET archive_name == ArchiveName(folder, sorted_file_count)
                    members == {Member(folder, f) : f \in sorted_files}
                IN  /\ archives' =
                          [n \in DOMAIN archives \cup {archive_name} |->
                              IF n = archive_name THEN members ELSE archives[n]]
                    /\ written' = written \cup
                          {[folder |-> folder, name |-> archive_name,
                            count |-> sorted_file_count, members |-> members]}
                    /\ folderList' = Tail(folderList)
                    /\ UNCHANGED <<pc, status, err>>
    /\ UNCHANGED <<args, inputDir, dirs, files, zipList, fileList, extracted,
                   stamped, enumerated, moved>>

\* zip_sorted_folders returns and main ends, line 259; the state kept is
\* the one at that return, before the two temporary folders are disposed of
ZipReturn ==
    /\ pc = "zip_loop"
    /\ folderList = <<>>
    /\ Exit(0, "")
    /\ UNCHANGED <<args, inputDir, dirs, files, archives, zipList, fileList,
                   folderList, extracted, stamped, enumerated, moved, written>>

----------------------------------------------------------------------------

Next ==
    \/ MainNoInput
    \/ MainNoOutput
    \/ MainInputNotFound
    \/ MainSetup
    \/ UnzipBegin
    \/ UnzipExtract
    \/ UnzipSetTimes
    \/ UnzipReturn
    \/ SortBegin
    \/ SortMove
    \/ SortReturn
    \/ ZipBegin
    \/ ZipFolder
    \/ ZipReturn

Spec == Init /\ [][Next]_vars

----------------------------------------------------------------------------
(* sort_files_by_date and zip_sorted_folders called on folders that already *)
(* hold files: main always hands them two fresh temporary folders, a       *)
(* caller of the two functions need not.                                   *)

OldStamp == Mktime(<<2021, 6, 14, 8, 0, 0>>)

\* scratch files a caller may hold: "p.j" and "R" of 2021-06-15, "n.t" of
\* 2021-06-16
ApiScratch ==
    [q \in {UnzipPath \o << <<"p", ".", "j">> >>,
            UnzipPath \o << <<"R">> >>,
            UnzipPath \o << <<"n", ".", "t">> >>} |->
        [zip  |-> <<"n", "e", "w">>,
         name |-> <<Basename(q)>>,
         mtime |-> IF Basename(q) = <<"n", ".", "t">>
                   THEN Mktime(<<2021, 6, 16, 23, 59, 58>>)
                   ELSE Mktime(<<2021, 6, 15, 14, 30, 0>>)]]

\* folders a sorted folder may already hold: the date folder of 2021-06-15,
\* the date folder of 2021-06-14, and a folder whose name is no date
ApiFolders ==
    { SortPath \o << <<"0", "6", "_", "1", "5", "_", "2", "0", "2", "1">> >>,
      SortPath \o << <<"0", "6", "_", "1", "4", "_", "2", "0", "2", "1">> >>,
      SortPath \o << <<"m", "i", "s", "c">> >> }

\* files such a folder may already hold
ApiOldNames == { <<"p", ".", "j">>, <<"R">> }

ApiSorted ==
    [q \in {d \o <<n>> : d \in ApiFolders, n \in ApiOldNames} |->
        [zip |-> <<"o", "l", "d">>, name |-> <<Basename(q)>>, mtime |-> OldStamp]]

Restrict(f, S) == [q \in S |-> f[q]]

InitApi ==
    /\ args \in [input : {None}, output : {OutputPath},
                 format : Templates, date : DateFormats]
    /\ inputDir = [exists |-> FALSE, entries |-> EmptyMap]
    /\ \E D \in SUBSET ApiFolders :
          dirs = [p \in {OutputPath, UnzipPath, SortPath} \cup D |-> OldStamp]
    /\ \E S \in SUBSET DOMAIN ApiScratch, T \in SUBSET DOMAIN ApiSorted :
          /\ \A q \in T : Parent(q) \in DOMAIN dirs
          /\ files = Overwrite(Restrict(ApiScratch, S), Restrict(ApiSorted, T))
    /\ archives = EmptyMap
    /\ pc = "sort"
    /\ status = -1
    /\ err = ""
    /\ zipList = <<>>
    /\ fileList = <<>>
    /\ folderList = <<>>
    /\ extracted = {}
    /\ stamped = {}
    /\ enumerated = {}
    /\ moved = {}
    /\ written = {}

NextApi ==
    \/ SortBegin
    \/ SortMove
    \/ SortReturn
    \/ ZipBegin
    \/ ZipFolder
    \/ ZipReturn

SpecApi == InitApi /\ [][NextApi]_vars

----------------------------------------------------------------------------
(* Properties *)

Succeeded == pc = "exit" /\ status = 0

\* the regular files anywhere below directory d
FilesBelow(d) == {p \in DOMAIN files : IsPrefix(d, p) /\ p # d}

\* the date folders holding a file with the content of member m
BucketsOf(m) ==
    {b \in SortedFolders :
        \E p \in FilesBelow(b) : files[p].zip = m.zip /\ files[p].name = m.name}

\* the output archives holding the content of member m
ArchivesOf(m) ==
    {n \in DOMAIN archives :
        \E e \in archives[n] : ~e.isdir /\ e.zip = m.zip /\ e.name = m.name}

\* C1: after a full run of the pipeline every member of every input archive
\* is in exactly one date folder and in exactly one output archive.
C1_NoMemberDropped ==
    Succeeded =>
        \A m \in AllMembers :
            /\ Cardinality(BucketsOf(m)) = 1
            /\ Cardinality(ArchivesOf(m)) = 1

\* the date folders that hold anything
NonEmptyBuckets == {b \in SortedFolders : Children(dirs, files, b) # {}}

\* C2: after zip_sorted_folders the output folder holds one distinct archive
\* per non-empty date folder, whatever the template and the date format.
C2_OneArchivePerBucket ==
    Succeeded => Cardinality(DOMAIN archives) = Cardinality(NonEmptyBuckets)

\* C3: the members of a date folder's archive are all the files of the
\* folder's subtree, each under its path relative to the folder.
C3_RecursiveMembers ==
    \A w \in written :
        {e.arcname : e \in {e \in w.members : ~e.isdir}}
            = {SubSeq(p, Len(w.folder) + 1, Len(p)) : p \in FilesBelow(w.folder)}

AllIds == {MemberId(m) : m \in AllMembers}

\* C4: no file is moved before every member of every input archive is
\* extracted and has got its timestamp, and no output archive is written
\* before every enumerated file is moved.
C4_StagesOrdered ==
    /\ (enumerated # {} \/ moved # {}) => (extracted = AllIds /\ stamped = AllIds)
    /\ written # {} => {m.path : m \in moved} = {e.path : e \in enumerated}

C4_Witness ==
    /\ written # {}
    /\ Cardinality(moved) = 2
    /\ Cardinality({m.zip : m \in AllIds}) = 2

ConfigError == args.input = None \/ args.output = None \/ ~inputDir.exists

\* C5: with the input or the output argument missing, or no input folder,
\* main goes straight to its end, with a non-zero status and before any
\* stage runs, and no folder and no file has been created.
C5_ConfigErrorNoSideEffects ==
    ConfigError =>
        /\ pc \in {"main", "exit"}
        /\ pc = "exit" \/ ENABLED Next
        /\ pc = "exit" => status # 0
        /\ DOMAIN dirs = (IF inputDir.exists THEN {InputPath} ELSE {})
        /\ files = EmptyMap
        /\ archives = EmptyMap

C5_Witness ==
    /\ pc = "exit"
    /\ status = 1
    /\ args.input # None
    /\ args.output # None
    /\ ~inputDir.exists

\* a file named *.zip of the input folder is no archive
HasBadZip == \E z \in ZipNames \cap DOMAIN inputDir.entries : ~inputDir.entries[z].valid

\* C6: when a *.zip file of the input folder is no valid archive, the run
\* never gets past unzip_all_zip_files, goes on until it ends, can only end
\* with a non-zero status, and writes no output archive.
C6_BadZipFailsRun ==
    (HasBadZip /\ ~ConfigError) =>
        /\ pc \in {"main", "unzip", "unzip_loop", "unzip_utime", "exit"}
        /\ pc = "exit" \/ ENABLED Next
        /\ pc = "exit" => status # 0
        /\ archives = EmptyMap
        /\ written = {}

C6_Witness ==
    /\ pc = "exit"
    /\ err = "BadZipFile"
    /\ extracted # {}
    /\ TextName \in DOMAIN inputDir.entries

\* C7: when unzip_all_zip_files has completed, the file extracted for each
\* member of each input archive has the member's stored timestamp as its
\* modification time.
C7_MtimeEqualsStored ==
    pc = "sort" =>
        \A m \in AllMembers :
            /\ UnzipPath \o m.name \in DOMAIN files
            /\ LocalTime(files[UnzipPath \o m.name].mtime) = m.date_time

\* "archive_2021-06-15_[2].zip"
ExampleName ==
    <<"a", "r", "c", "h", "i", "v", "e", "_", "2", "0", "2", "1", "-", "0",
      "6", "-", "1", "5", "_", "[", "2", "]", ".", "z", "i", "p">>

\* the date stored in the input archive for output member e
StoredDate(e) ==
    LET m == CHOOSE m \in AllMembers : m.zip = e.zip /\ m.name = e.name
    IN  <<m.date_time[1], m.date_time[2], m.date_time[3]>>

\* C8: the name of a date folder parses back to the date its entries were
\* modified on; the archive of the folder is named by the template rendered
\* with that date and the number of collected entries, which is the number
\* of members written; with the defaults two files of 2021-06-15 give
\* archive_2021-06-15_[2].zip.
C8_ArchiveNameFromDateAndCount ==
    /\ \A b \in SortedFolders : \A f \in GlobFolder(dirs, files, b) :
          LET date == FromTimestamp(GetMtime(dirs, files, f))
          IN  ParseFolderKey(Basename(b)) =
                  [ok |-> TRUE, y |-> date.y, m |-> date.m, d |-> date.d]
    /\ \A w \in written :
          /\ w.count = Cardinality(w.members)
          /\ w.count = Cardinality(GlobFolder(dirs, files, w.folder))
          /\ w.name \in DOMAIN archives
          /\ \A f \in GlobFolder(dirs, files, w.folder) :
                w.name = FormatName(args.format,
                                    Strftime(FromTimestamp(GetMtime(dirs, files, f)),
                                             args.date),
                                    w.count)
          /\ ( /\ args.format = DefaultFormat
               /\ args.date = DefaultDate
               /\ w.count = 2
               /\ \A e \in w.members : ~e.isdir /\ StoredDate(e) = <<2021, 6, 15>> )
             => w.name = ExampleName

C8_Witness ==
    /\ Succeeded
    /\ \E w \in written : w.name = ExampleName /\ archives[w.name] = w.members

\* the folder of the sorted root whose name, "misc", is no date
MiscFolder == SortPath \o << <<"m", "i", "s", "c">> >>

\* C9 as claimed: zip_sorted_folders fails on every immediate subdirectory
\* of the sorted root whose name is no date, empty or not.
C9_MalformedAlwaysFails == Succeeded => MiscFolder \notin DOMAIN dirs

\* C9: zip_sorted_folders fails with ValueError, and writes no archive for
\* the folder, when a subdirectory of the sorted root whose name is no date
\* holds an entry the glob collects; a folder of such a name in which
\* nothing is collected raises no error.
C9_MalformedWithFilesFails ==
    /\ (MiscFolder \in DOMAIN dirs /\ GlobFolder(dirs, files, MiscFolder) # {}) =>
          /\ ~Succeeded
          /\ pc = "exit" => err = "ValueError"
          /\ \A w \in written : w.folder # MiscFolder
    /\ err = "ValueError" =>
          (MiscFolder \in DOMAIN dirs /\ GlobFolder(dirs, files, MiscFolder) # {})

C9_Witness ==
    /\ pc = "exit"
    /\ err = "ValueError"
    /\ GlobFolder(dirs, files, MiscFolder) # {}
    /\ written # {}

\* sort_files_by_date has returned
SortDone == pc \in {"zip", "zip_loop"} \/ (pc = "exit" /\ err # "shutil.Error")

\* C10: after sort_files_by_date every file it enumerated is gone from its
\* original path and is, with its content and modification time, at
\* <sorted root>/<date key>/<base name> and nowhere else, also when a file
\* of that name was in the date folder before.
C10_MoveNotCopy ==
    SortDone =>
        \A e \in {e \in enumerated : ~e.isdir} :
            LET dst == DateFolderPath(e.mtime) \o <<Basename(e.path)>>
            IN  /\ e.path \notin DOMAIN files
                /\ dst \in DOMAIN files
                /\ files[dst] = [zip |-> e.zip, name |-> e.name, mtime |-> e.mtime]
                /\ \A p \in DOMAIN files :
                      (files[p].zip = e.zip /\ files[p].name = e.name) => p = dst

C10_Witness ==
    /\ pc = "zip"
    /\ \E m \in moved : m.replaced
    /\ Cardinality(moved) >= 2

====
